---- MODULE Spec2Model ----
(***************************************************************************)
(* The differential evolution optimizer of de/DifferentialEvolution.h.     *)
(*                                                                         *)
(* The engine is the record de, whose fields carry the names of the        *)
(* members and locals of class DifferentialEvolution.  Every operation of  *)
(* the class is an operator from an engine record (and the pseudo-random   *)
(* draws it consumes) to the engine record it leaves, and an action that   *)
(* applies it to de.  twin is a second engine, used by SpecPair only, that *)
(* is constructed with the same arguments and runs in step with de.        *)
(*                                                                         *)
(* Doubles are modelled on the integer grid: an agent's coordinate and a   *)
(* cost are integers, and the two places where the code scales a double    *)
(* (the initial draw and the product with m_F) round to the nearest grid   *)
(* point.  A draw of the generator is a fraction <<n, d>> in [0, 1).       *)
(***************************************************************************)
EXTENDS Integers, Sequences, FiniteSets, TLC

VARIABLES de, twin

vars == <<de, twin>>

----------------------------------------------------------------------------
(* Bounds of the model. *)

\* Optimize is called with at most this many iterations.
MaxIterations == 2

\* Optimize is called at most this many times on one engine.
MaxCalls == 1

----------------------------------------------------------------------------
(* Numbers. *)

\* -std::numeric_limits<double>::infinity(): below every cost of the model.
NegInfinity == -1000000

\* Canonical outputs of the generator, as fractions of [0, 1).
Canon == {<<0, 1>>, <<1, 4>>, <<1, 2>>, <<19, 20>>}

\* Draws of Canon that stand for the others where a draw becomes a
\* coordinate under the constraints of the model, one of the
\* NumberOfParameters indexes or a comparison with m_CR: there 1/4 gives
\* what 0 gives, and 1/2 gives what 19/20 gives or what 0 gives.
Coarse == {<<0, 1>>, <<19, 20>>}

m_F == <<4, 5>>

m_CR == <<9, 10>>

\* n / d rounded to the nearest grid point.
Round(n, d) == (2 * n + d) \div (2 * d)

\* std::uniform_real_distribution<double>(lower, upper) on the draw u.
UniformReal(lower, upper, u) == lower + Round(u[1] * (upper - lower), u[2])

\* Mutant of IndexDraw: a distribution over (0, upper - 1).
IndexDrawBelowUpper(upper, u) == (u[1] * (upper - 1)) \div u[2]

\* int a = distribution(m_generator), distribution over (0, upper): the
\* conversion of the double to int truncates.
IndexDraw(upper, u) == (u[1] * upper) \div u[2]

\* r[i] < m_CR
BelowCR(u) == u[1] * m_CR[2] < m_CR[1] * u[2]

\* m_F * d
TimesF(d) == Round(m_F[1] * d, m_F[2])

----------------------------------------------------------------------------
(* The cost interface: the quadratic of the README, with its constraints   *)
(* scaled to the grid of the model, and the same with the second dimension *)
(* left at the default Constraints (unconstrained).                        *)

NumberOfParameters == 1 + 1

Dims == 0 .. (NumberOfParameters - 1)

EvaluteCost(inputs) ==
    LET x == inputs[0]
        y == inputs[1]
    IN  x * x + 2 * x * y + 3 * y * y

Constraints(lower, upper, isConstrained) ==
    [lower |-> lower, upper |-> upper, isConstrained |-> isConstrained]

CostFunctions ==
    { [i \in Dims |-> Constraints(0, 1, TRUE)],
      [i \in Dims |-> IF i = 0 THEN Constraints(0, 1, TRUE)
                               ELSE Constraints(0, 1, FALSE)] }

\* Constraints::Check
Check(c, candidate) ==
    IF c.isConstrained
    THEN IF candidate <= c.upper /\ candidate >= c.lower THEN TRUE ELSE FALSE
    ELSE TRUE

\* What a draw from the unbounded default range
\* (g_defaultLowerConstraint, g_defaultUpperConstarint) gives: the standard
\* defines no result for it, so it is any of these, the same for every draw
\* of one build.
UnboundedOutcomes == {-1, 2}

----------------------------------------------------------------------------
(* Arguments. *)

PopulationSizes == {3, 4}

RandomSeeds == {123}

\* No std::function given.
Nullptr == "nullptr"

\* The termination conditions of the model: none, and "the best cost is
\* below 1" (the minimum of the quadratic, 0, has been found).
TerminationConditions == {Nullptr, "bestCostBelow1"}

Callbacks == {Nullptr, "callback"}

NoEngine == [pc |-> "none"]

\* The call DifferentialEvolution(costFunction, populationSize, randomSeed,
\* shouldCheckConstraints, callback, terminationCondition), before the
\* constructor's body has run.  clock is the instant of the call.
NewEngine(costFunction, populationSize, randomSeed, shouldCheckConstraints, callback, terminationCondition, clock) ==
    [ pc |-> "new",
      clock |-> clock,
      costFunction |-> costFunction,
      populationSize |-> populationSize,
      randomSeed |-> randomSeed,
      m_populationSize |-> populationSize,
      m_numberOfParameters |-> 0,
      m_shouldCheckConstraints |-> shouldCheckConstraints,
      m_callback |-> callback,
      m_terminationCondition |-> terminationCondition,
      m_generator |-> 0,
      m_population |-> <<>>,
      m_minCostPerAgent |-> <<>>,
      m_constraints |-> <<>>,
      m_bestAgentIndex |-> 0,
      m_minCost |-> NegInfinity,
      \* Optimize's arguments and loop variable
      iterations |-> 0, verbose |-> FALSE, i |-> 0,
      \* SelectionAndCorssing's locals
      x |-> 0, a |-> 0, b |-> 0, c |-> 0, minCost |-> 0, bestAgentIndex |-> 0,
      \* what the caller has seen of this engine
      calls |-> 0,
      nInit |-> 0, nGen |-> 0, nCallback |-> 0, nCondition |-> 0,
      lastEvent |-> "none", stopped |-> FALSE, report |-> "none",
      \* history: a pass of slot 0 was skipped in the generation that is
      \* running or was the last to run
      retried0 |-> FALSE ]

Agents(e) == 0 .. (e.m_populationSize - 1)

----------------------------------------------------------------------------
(* The constructor. *)

\* Mutant of GeneratorSeed: seeded from the time of construction.
GeneratorSeedClock(e) == e.clock

\* m_generator.seed(randomSeed): generators seeded alike give the same draws.
GeneratorSeed(e) == e.randomSeed

\* assert(m_populationSize >= 4): compiled out when NDEBUG is defined.
AssertPopulationSize(e, ndebug) == ndebug \/ e.m_populationSize >= 4

ConstructOp(e, ndebug) ==
    IF ~AssertPopulationSize(e, ndebug)
    THEN [e EXCEPT !.pc = "aborted", !.m_generator = GeneratorSeed(e)]
    ELSE [e EXCEPT
            !.pc = "constructed",
            !.m_generator = GeneratorSeed(e),
            !.m_numberOfParameters = NumberOfParameters,
            !.m_population = [k \in Agents(e) |-> [i \in Dims |-> 0]],
            !.m_minCostPerAgent = [k \in Agents(e) |-> 0],
            !.m_constraints = e.costFunction]

Construct ==
    /\ de.pc = "new"
    /\ \E ndebug \in BOOLEAN : de' = ConstructOp(de, ndebug)
    /\ UNCHANGED twin

----------------------------------------------------------------------------
(* Accessors. *)

GetBestAgent(e) == e.m_population[e.m_bestAgentIndex]

GetBestCost(e) == e.m_minCostPerAgent[e.m_bestAgentIndex]

GetPopulationWithCosts(e) ==
    [k \in Agents(e) |-> <<e.m_population[k], e.m_minCostPerAgent[k]>>]

----------------------------------------------------------------------------
(* Optimize: the call, and InitPopulation. *)

OptimizeOp(e, iterations, verbose) ==
    [e EXCEPT !.pc = "InitPopulation",
              !.iterations = iterations, !.verbose = verbose, !.i = 0,
              !.calls = e.calls + 1,
              !.nInit = 0, !.nGen = 0, !.nCallback = 0, !.nCondition = 0,
              !.lastEvent = "none", !.stopped = FALSE, !.report = "none",
              !.retried0 = FALSE]

Optimize ==
    /\ de.pc \in {"constructed", "returned"}
    /\ de.calls < MaxCalls
    /\ \E iterations \in 0 .. MaxIterations, verbose \in BOOLEAN :
          de' = OptimizeOp(de, iterations, verbose)
    /\ UNCHANGED twin

\* The second loop of InitPopulation from agent k on: <<m_minCost,
\* m_bestAgentIndex>> after it.
RECURSIVE InitBest(_, _, _, _, _)
InitBest(costs, k, n, minCost, best) ==
    IF k >= n THEN <<minCost, best>>
    ELSE IF costs[k] < minCost
         THEN InitBest(costs, k + 1, n, costs[k], k)
         ELSE InitBest(costs, k + 1, n, minCost, best)

InitPopulationOp(e, us, ub) ==
    LET pop == [k \in Agents(e) |->
                  [i \in Dims |->
                     IF e.m_constraints[i].isConstrained
                     THEN UniformReal(e.m_constraints[i].lower,
                                      e.m_constraints[i].upper, us[k][i])
                     ELSE ub]]
        costs == [k \in Agents(e) |-> EvaluteCost(pop[k])]
        best == InitBest(costs, 0, e.m_populationSize,
                         e.m_minCost, e.m_bestAgentIndex)
    IN  [e EXCEPT !.pc = "loop",
                  !.m_population = pop,
                  !.m_minCostPerAgent = costs,
                  !.m_minCost = best[1],
                  !.m_bestAgentIndex = best[2],
                  !.nInit = e.nInit + 1,
                  !.lastEvent = "InitPopulation"]

InitPopulation ==
    /\ de.pc = "InitPopulation"
    /\ \E us \in [Agents(de) -> [Dims -> Coarse]], ub \in UnboundedOutcomes :
          de' = InitPopulationOp(de, us, ub)
    /\ UNCHANGED twin

----------------------------------------------------------------------------
(* SelectionAndCorssing. *)

\* CheckConstraints
CheckConstraints(e, agent) ==
    \A i \in Dims : Check(e.m_constraints[i], agent[i])

\* The entry of SelectionAndCorssing, to the head of the donor loop of x = 0.
EnterSelectionAndCorssing(e) ==
    [e EXCEPT !.pc = "donors",
              !.minCost = e.m_minCostPerAgent[0],
              !.bestAgentIndex = 0,
              !.x = 0, !.a = 0, !.b = 0, !.c = 0,
              !.retried0 = FALSE]

\* Mutant of Continues: i <= iterations.
ContinuesInclusive(e) == e.i <= e.iterations

\* i < iterations
Continues(e) == e.i < e.iterations

\* The head of Optimize's loop, and the message after it.
OptimizeLoopOp(e) ==
    IF Continues(e)
    THEN EnterSelectionAndCorssing(e)
    ELSE [e EXCEPT !.pc = "returned",
                   !.report = IF e.verbose THEN "generations" ELSE e.report]

OptimizeLoop ==
    /\ de.pc = "loop"
    /\ de' = OptimizeLoopOp(de)
    /\ UNCHANGED twin

\* Mutant of DonorsClash: the donors are compared with x only.
DonorsClashWithX(x, a, b, c) == a = x \/ b = x \/ c = x

\* a == x || b == x || c == x || a == b || a == c || b == c
DonorsClash(x, a, b, c) ==
    a = x \/ b = x \/ c = x \/ a = b \/ a = c \/ b = c

\* One pass of the donor loop: three draws, and the loop's condition.  The
\* donors of a rejected pass are drawn again before they are read, and are
\* kept at x as they were on entry.
DonorsOp(e, ua, ub, uc) ==
    LET a == IndexDraw(e.m_populationSize, ua)
        b == IndexDraw(e.m_populationSize, ub)
        c == IndexDraw(e.m_populationSize, uc)
    IN  IF DonorsClash(e.x, a, b, c)
        THEN [e EXCEPT !.a = e.x, !.b = e.x, !.c = e.x]
        ELSE [e EXCEPT !.pc = "cross", !.a = a, !.b = b, !.c = c]

Donors ==
    /\ de.pc = "donors"
    /\ \E ua \in Canon, ub \in Canon, uc \in Canon :
          de' = DonorsOp(de, ua, ub, uc)
    /\ UNCHANGED twin

\* z[i] = m_population[a][i] + m_F * (m_population[b][i] - m_population[c][i])
Intermediate(e) ==
    [i \in Dims |-> e.m_population[e.a][i]
                    + TimesF(e.m_population[e.b][i] - e.m_population[e.c][i])]

\* The crossing: newX from z, R and r.
Crossing(e, z, R, r) ==
    [i \in Dims |-> IF BelowCR(r[i]) \/ i = R THEN z[i]
                    ELSE e.m_population[e.x][i]]

\* Mutant of Skips: no trial is skipped.
SkipsNever(e, newX) == FALSE

\* m_shouldCheckConstraints && !CheckConstraints(newX)
Skips(e, newX) == e.m_shouldCheckConstraints /\ ~CheckConstraints(e, newX)

\* Mutant of Keeps: every trial is kept.
KeepsAlways(newCost, oldCost) == TRUE

\* newCost < m_minCostPerAgent[x]
Keeps(newCost, oldCost) == newCost < oldCost

\* Mutant of Selected: the cached cost is not updated.
SelectedAgentOnly(e, newX, newCost) ==
    IF Keeps(newCost, e.m_minCostPerAgent[e.x])
    THEN [e EXCEPT !.m_population[e.x] = newX]
    ELSE e

\* Calculate new cost and decide should the newX be kept.
Selected(e, newX, newCost) ==
    IF Keeps(newCost, e.m_minCostPerAgent[e.x])
    THEN [e EXCEPT !.m_population[e.x] = newX,
                   !.m_minCostPerAgent[e.x] = newCost]
    ELSE e

\* Mutant of Tracked: slot 0 is not compared.
TrackedFromSecond(e) ==
    IF e.x > 0 /\ e.m_minCostPerAgent[e.x] < e.minCost
    THEN [e EXCEPT !.minCost = e.m_minCostPerAgent[e.x],
                   !.bestAgentIndex = e.x]
    ELSE e

\* Track the global best agent.
Tracked(e) ==
    IF e.m_minCostPerAgent[e.x] < e.minCost
    THEN [e EXCEPT !.minCost = e.m_minCostPerAgent[e.x],
                   !.bestAgentIndex = e.x]
    ELSE e

\* The end of one pass of the loop over x, at x (after x-- on a skip): x++,
\* the test x < m_populationSize, and, when it fails, the end of
\* SelectionAndCorssing and the return to Optimize (where the verbose line
\* of the generation is printed).
NextAgent(e, x) ==
    IF x + 1 < e.m_populationSize
    THEN [e EXCEPT !.pc = "donors",
                   !.x = x + 1, !.a = x + 1, !.b = x + 1, !.c = x + 1]
    ELSE [e EXCEPT !.pc = "callback",
                   !.x = x + 1,
                   !.m_minCost = e.minCost,
                   !.m_bestAgentIndex = e.bestAgentIndex,
                   !.nGen = e.nGen + 1,
                   !.lastEvent = "SelectionAndCorssing"]

\* The rest of one pass of the loop over x, from the donors on.
CrossOp(e, uR, ur) ==
    LET z == Intermediate(e)
        R == IndexDraw(e.m_numberOfParameters, uR)
        newX == Crossing(e, z, R, ur)
    IN  IF Skips(e, newX)
        THEN NextAgent([e EXCEPT !.retried0 = e.retried0 \/ e.x = 0], e.x - 1)
        ELSE NextAgent(Tracked(Selected(e, newX, EvaluteCost(newX))), e.x)

Cross ==
    /\ de.pc = "cross"
    /\ \E uR \in Coarse, ur \in [Dims -> Coarse] : de' = CrossOp(de, uR, ur)
    /\ UNCHANGED twin

----------------------------------------------------------------------------
(* Optimize: after a generation. *)

\* The termination condition on the engine.
TerminationCondition(e) ==
    e.m_terminationCondition = "bestCostBelow1" /\ GetBestCost(e) < 1

\* if (m_callback) m_callback(*this)
CallbackOp(e) ==
    IF e.m_callback # Nullptr
    THEN [e EXCEPT !.pc = "terminationCondition",
                   !.nCallback = e.nCallback + 1,
                   !.lastEvent = "callback"]
    ELSE [e EXCEPT !.pc = "terminationCondition"]

Callback ==
    /\ de.pc = "callback"
    /\ de' = CallbackOp(de)
    /\ UNCHANGED twin

\* Mutant of Returns: the result of the condition is ignored.
ReturnsNever(e) == FALSE

\* m_terminationCondition && m_terminationCondition(*this)
Returns(e) == e.m_terminationCondition # Nullptr /\ TerminationCondition(e)

\* if (m_terminationCondition) ..., and i++
TerminationOp(e) ==
    LET called == [e EXCEPT
                     !.nCondition = IF e.m_terminationCondition # Nullptr
                                    THEN e.nCondition + 1 ELSE e.nCondition,
                     !.lastEvent = IF e.m_terminationCondition # Nullptr
                                   THEN "terminationCondition" ELSE e.lastEvent]
    IN  IF Returns(e)
        THEN [called EXCEPT !.pc = "returned",
                            !.stopped = TRUE,
                            !.report = IF e.verbose THEN "condition" ELSE e.report]
        ELSE [called EXCEPT !.pc = "loop", !.i = e.i + 1]

Termination ==
    /\ de.pc = "terminationCondition"
    /\ de' = TerminationOp(de)
    /\ UNCHANGED twin

----------------------------------------------------------------------------

Init ==
    /\ \E costFunction \in CostFunctions, populationSize \in PopulationSizes,
          randomSeed \in RandomSeeds, shouldCheckConstraints \in BOOLEAN,
          callback \in Callbacks, terminationCondition \in TerminationConditions :
          de = NewEngine(costFunction, populationSize, randomSeed,
                         shouldCheckConstraints, callback,
                         terminationCondition, 1)
    /\ twin = NoEngine

Next ==
    \/ Construct
    \/ Optimize
    \/ InitPopulation
    \/ OptimizeLoop
    \/ Donors
    \/ Cross
    \/ Callback
    \/ Termination

Spec == Init /\ [][Next]_vars

----------------------------------------------------------------------------
(* Two engines of one build, constructed with the same arguments and given *)
(* the same calls.  Each draws from its own m_generator; m_generator is    *)
(* modelled by what it was seeded with, and two generators seeded alike    *)
(* give the same draw to engines that take their draws in step.            *)

SameStream(e1, e2) == e1.m_generator = e2.m_generator

\* The draws the second engine can get when the first gets d out of S.
TwinDraws(S, d) == IF SameStream(de, twin) THEN {d} ELSE S

InitPair ==
    \E costFunction \in CostFunctions, populationSize \in PopulationSizes,
       randomSeed \in RandomSeeds, shouldCheckConstraints \in BOOLEAN :
       /\ de = NewEngine(costFunction, populationSize, randomSeed,
                         shouldCheckConstraints, Nullptr, Nullptr, 1)
       /\ twin = NewEngine(costFunction, populationSize, randomSeed,
                           shouldCheckConstraints, Nullptr, Nullptr, 2)

PairConstruct ==
    /\ de.pc = "new" /\ twin.pc = "new"
    /\ \E ndebug \in BOOLEAN :
          de' = ConstructOp(de, ndebug) /\ twin' = ConstructOp(twin, ndebug)

PairOptimize ==
    /\ de.pc \in {"constructed", "returned"} /\ twin.pc = de.pc
    /\ de.calls < MaxCalls
    /\ \E iterations \in 0 .. MaxIterations, verbose \in BOOLEAN :
          /\ de' = OptimizeOp(de, iterations, verbose)
          /\ twin' = OptimizeOp(twin, iterations, verbose)

PairInitPopulation ==
    /\ de.pc = "InitPopulation" /\ twin.pc = "InitPopulation"
    /\ \E us \in [Agents(de) -> [Dims -> Coarse]], ub \in UnboundedOutcomes :
          /\ de' = InitPopulationOp(de, us, ub)
          /\ \E vs \in TwinDraws([Agents(twin) -> [Dims -> Coarse]], us) :
                twin' = InitPopulationOp(twin, vs, ub)

PairOptimizeLoop ==
    /\ de.pc = "loop" /\ twin.pc = "loop"
    /\ de' = OptimizeLoopOp(de) /\ twin' = OptimizeLoopOp(twin)

PairDonors ==
    /\ de.pc = "donors" /\ twin.pc = "donors"
    /\ \E ua \in Canon, ub \in Canon, uc \in Canon :
          /\ de' = DonorsOp(de, ua, ub, uc)
          /\ \E v \in TwinDraws(Canon \X Canon \X Canon, <<ua, ub, uc>>) :
                twin' = DonorsOp(twin, v[1], v[2], v[3])

PairCross ==
    /\ de.pc = "cross" /\ twin.pc = "cross"
    /\ \E uR \in Coarse, ur \in [Dims -> Coarse] :
          /\ de' = CrossOp(de, uR, ur)
          /\ \E v \in TwinDraws(Coarse \X [Dims -> Coarse], <<uR, ur>>) :
                twin' = CrossOp(twin, v[1], v[2])

PairCallback ==
    /\ de.pc = "callback" /\ twin.pc = "callback"
    /\ de' = CallbackOp(de) /\ twin' = CallbackOp(twin)

PairTermination ==
    /\ de.pc = "terminationCondition" /\ twin.pc = "terminationCondition"
    /\ de' = TerminationOp(de) /\ twin' = TerminationOp(twin)

PairNext ==
    \/ PairConstruct
    \/ PairOptimize
    \/ PairInitPopulation
    \/ PairOptimizeLoop
    \/ PairDonors
    \/ PairCross
    \/ PairCallback
    \/ PairTermination

SpecPair == InitPair /\ [][PairNext]_vars

----------------------------------------------------------------------------
(* Fair draws.  The generator gives every outcome of a draw again and      *)
(* again: a pass of the donor loop that is possible infinitely often       *)
(* happens, and so does a crossing.  The engine itself keeps running.      *)

\* The crossing of the donors of e can give a trial that is not skipped.
CanBeAccepted(e) ==
    \E uR \in Coarse, ur \in [Dims -> Coarse] :
       ~Skips(e, Crossing(e, Intermediate(e),
                          IndexDraw(e.m_numberOfParameters, uR), ur))

\* A pass of the donor loop that leaves it with such donors.
DonorsPromising == Donors /\ de'.pc = "cross" /\ CanBeAccepted(de')

\* A crossing whose trial is not skipped: x advances.
CrossAccepted == Cross /\ de'.x = de.x + 1

InitLive ==
    /\ \E costFunction \in CostFunctions, populationSize \in PopulationSizes :
          de = NewEngine(costFunction, populationSize, 123, TRUE,
                         Nullptr, Nullptr, 1)
    /\ twin = NoEngine

\* One call, Optimize(1, false).
OptimizeOnce ==
    /\ de.pc = "constructed"
    /\ de.calls < MaxCalls
    /\ de' = OptimizeOp(de, 1, FALSE)
    /\ UNCHANGED twin

NextLive ==
    \/ Construct
    \/ OptimizeOnce
    \/ InitPopulation
    \/ OptimizeLoop
    \/ Donors
    \/ Cross
    \/ Callback
    \/ Termination

SpecLive ==
    /\ InitLive /\ [][NextLive]_vars
    /\ WF_vars(NextLive)
    /\ SF_vars(DonorsPromising)
    /\ SF_vars(CrossAccepted)

----------------------------------------------------------------------------
(* Properties. *)

Costs(e) == {e.m_minCostPerAgent[k] : k \in Agents(e)}

\* min over i of costPerAgent[i]
MinCost(e) == CHOOSE m \in Costs(e) : \A n \in Costs(e) : m <= n

\* InitPopulation has run in this call of Optimize.
Initialized(e) == e.nInit > 0

\* InitPopulation has returned and no generation step has begun.
JustInitialized(e) == e.pc = "loop" /\ e.nGen = 0 /\ Initialized(e)

\* Between two generation steps, or after the last one.
GenerationDone(e) ==
    e.nGen > 0 /\ e.pc \in {"callback", "terminationCondition", "loop", "returned"}

BestIsMinimum(e) ==
    /\ e.m_minCost = MinCost(e)
    /\ e.m_minCostPerAgent[e.m_bestAgentIndex] = e.m_minCost
    /\ GetBestCost(e) = MinCost(e)
    /\ EvaluteCost(GetBestAgent(e)) = MinCost(e)

\* C1: after InitPopulation, and before any generation step, m_minCost is
\* the minimum of m_minCostPerAgent, the agent at m_bestAgentIndex has that
\* cost, and GetBestCost and GetBestAgent report it.
C1_BestAfterInitPopulation == JustInitialized(de) => BestIsMinimum(de)

\* C2: after every generation step, m_minCost is the minimum of
\* m_minCostPerAgent, the agent at m_bestAgentIndex has that cost, and
\* GetBestCost and GetBestAgent report a minimum-cost agent.
C2_BestAfterGeneration == GenerationDone(de) => BestIsMinimum(de)

\* Two generations have run, the second after a skipped pass of slot 0, and
\* the best agent is not the first one.
C2_Witness ==
    /\ GenerationDone(de) /\ de.nGen = 2 /\ de.retried0
    /\ de.m_bestAgentIndex # 0
    /\ de.m_minCost < de.m_minCostPerAgent[0]

\* C3: once InitPopulation has run, every cached cost is the cost function's
\* value on the agent of its slot, and GetPopulationWithCosts gives
\* populationSize pairs of an agent and that value.
C3_CostCacheFresh ==
    Initialized(de) =>
        /\ \A k \in Agents(de) :
              de.m_minCostPerAgent[k] = EvaluteCost(de.m_population[k])
        /\ DOMAIN GetPopulationWithCosts(de) = 0 .. (de.populationSize - 1)
        /\ \A k \in DOMAIN GetPopulationWithCosts(de) :
              LET pair == GetPopulationWithCosts(de)[k]
              IN  pair[1] = de.m_population[k] /\ pair[2] = EvaluteCost(pair[1])

\* A generation has replaced an agent by a trial outside the initial range
\* (constraints are not checked), and its cached cost is the trial's.
C3_Witness ==
    /\ GenerationDone(de)
    /\ \E k \in Agents(de) :
          /\ de.m_population[k][0] < 0
          /\ de.m_minCostPerAgent[k] = EvaluteCost(de.m_population[k])

\* C4: no step of a generation raises the cached cost of any slot, and a
\* slot's agent changes only when its cost becomes strictly less.
C4_SelectionMonotone ==
    [][de.pc \in {"donors", "cross"} =>
         \A k \in Agents(de) :
            /\ de'.m_minCostPerAgent[k] <= de.m_minCostPerAgent[k]
            /\ de'.m_population[k] # de.m_population[k] =>
                  de'.m_minCostPerAgent[k] < de.m_minCostPerAgent[k]]_vars

\* A trial has replaced the agent of slot 0: the slot holds a coordinate
\* that no initial draw gives.
C4_Witness ==
    /\ de.pc = "donors" /\ de.x = 1
    /\ de.m_population[0][0] > 1

Enforced(e, agent) ==
    \A i \in Dims :
       e.m_constraints[i].isConstrained =>
          e.m_constraints[i].lower <= agent[i] /\ agent[i] <= e.m_constraints[i].upper

\* C5: with constraint checking enabled, once InitPopulation has run, every
\* agent of the population is within the bounds of every constrained
\* dimension.
C5_ConstraintsHold ==
    (de.m_shouldCheckConstraints /\ Initialized(de)) =>
        \A k \in Agents(de) : Enforced(de, de.m_population[k])

\* Constraints are checked, a generation has run, and the crossing of the
\* second one can give a trial outside the bounds, which is skipped.
C5_Witness ==
    /\ de.m_shouldCheckConstraints /\ de.pc = "cross" /\ de.nGen = 1
    /\ \E uR \in Coarse, ur \in [Dims -> Coarse] :
          LET newX == Crossing(de, Intermediate(de),
                               IndexDraw(de.m_numberOfParameters, uR), ur)
          IN  Skips(de, newX) /\ CrossOp(de, uR, ur).x = de.x

\* C6: an engine constructed with a population size below 4 is never
\* produced: its construction fails.
C6_SmallPopulationRejected ==
    de.populationSize < 4 => de.pc \in {"new", "aborted"}

\* C7: when the termination condition holds after a generation, Optimize
\* returns there: the loop is never continued with the condition true on
\* the engine, and on such a return exactly nGen generations, callbacks and
\* evaluations of the condition have run, the engine is the one the last
\* generation left, and the message is not the one of exhausted generations.
C7_EarlyTermination ==
    /\ (de.pc = "loop" /\ de.nGen > 0 /\ de.m_terminationCondition # Nullptr)
          => ~TerminationCondition(de)
    /\ (de.pc = "returned" /\ de.stopped) =>
          /\ 1 <= de.nGen /\ de.nGen <= de.iterations
          /\ de.nGen = de.i + 1
          /\ de.nCondition = de.nGen
          /\ de.nCallback = IF de.m_callback # Nullptr THEN de.nGen ELSE 0
          /\ TerminationCondition(de)
          /\ BestIsMinimum(de)
          /\ de.report # "generations"
          /\ de.verbose => de.report = "condition"

\* Optimize has returned on the condition after the first of two
\* generations.
C7_Witness ==
    /\ de.pc = "returned" /\ de.stopped
    /\ de.nGen = 1 /\ de.iterations = 2 /\ de.report = "condition"

Count(set, n) == IF set THEN n ELSE 0

\* C8: InitPopulation runs once and first; the callback of a generation is
\* called once, after the generation and before the termination condition
\* is evaluated; without a stop on the condition, Optimize returns after
\* iterations generations and callbacks with the message of exhausted
\* generations.
C8_OptimizeProtocol ==
    LET cb == de.m_callback # Nullptr
        tc == de.m_terminationCondition # Nullptr
    IN  /\ de.pc \in {"donors", "cross", "loop"} =>
              /\ de.nInit = 1 /\ de.nGen = de.i /\ de.i <= de.iterations
              /\ de.nCallback = Count(cb, de.i)
              /\ de.nCondition = Count(tc, de.i)
        /\ de.pc \in {"donors", "cross"} => de.i < de.iterations
        /\ de.pc = "callback" =>
              /\ de.nInit = 1 /\ de.nGen = de.i + 1
              /\ de.nCallback = Count(cb, de.i)
              /\ de.nCondition = Count(tc, de.i)
              /\ de.lastEvent = "SelectionAndCorssing"
        /\ de.pc = "terminationCondition" =>
              /\ de.nInit = 1 /\ de.nGen = de.i + 1
              /\ de.nCallback = Count(cb, de.i + 1)
              /\ de.nCondition = Count(tc, de.i)
              /\ cb => de.lastEvent = "callback"
        /\ (de.pc = "returned" /\ ~de.stopped) =>
              /\ de.nInit = 1 /\ de.nGen = de.iterations
              /\ de.nCallback = Count(cb, de.iterations)
              /\ de.nCondition = Count(tc, de.iterations)
              /\ de.report = IF de.verbose THEN "generations" ELSE "none"

\* Optimize(2) has returned after two generations, two callbacks and two
\* evaluations of a condition that never held.
C8_Witness ==
    /\ de.pc = "returned" /\ ~de.stopped
    /\ de.nGen = 2 /\ de.nCallback = 2 /\ de.nCondition = 2
    /\ de.report = "generations"

C10_GenerationTerminates ==
    (de.populationSize >= 4 /\ de.pc \in {"InitPopulation", "donors", "cross"})
       ~> (de.pc = "returned" /\ de.x = de.m_populationSize
           /\ de.nGen = de.iterations)

\* Constraints are checked and the donors of slot 0 give a trial outside
\* the bounds whatever the crossing: the pass is skipped and slot 0 is
\* tried again.
C10_Witness ==
    /\ de.populationSize >= 4 /\ de.m_shouldCheckConstraints
    /\ de.pc = "cross" /\ de.x = 0
    /\ ~CanBeAccepted(de)

\* C11: whenever the intermediate solution z of slot x is formed, on a
\* first pass of x or on a pass that follows a skipped trial of x, the
\* donors a, b, c are indexes of the population, 0 .. m_populationSize - 1,
\* and a, b, c, x are pairwise distinct.
C11_DonorsValid ==
    de.pc = "cross" =>
        /\ {de.a, de.b, de.c} \subseteq 0 .. (de.m_populationSize - 1)
        /\ de.x \in 0 .. (de.m_populationSize - 1)
        /\ Cardinality({de.a, de.b, de.c, de.x}) = 4

\* The intermediate solution of slot 0 is about to be formed again after a
\* skipped trial of slot 0, and one of its donors is the last agent: the
\* greatest draw, truncated.
C11_Witness ==
    /\ de.pc = "cross" /\ de.x = 0 /\ de.retried0
    /\ de.nGen = 1
    /\ de.m_populationSize - 1 \in {de.a, de.b, de.c}
====
